---- MODULE Spec2Model ----
(***************************************************************************)
(* A model of the transcend crate (src/transcend/src/ptr.rs and the older  *)
(* src/src/ptr.rs): the lazily cached image base, the section table        *)
(* reader, the parallel wildcard pattern scanner, the RVA resolver and the *)
(* x64 inline hook installer.                                              *)
(*                                                                         *)
(* Four specifications share the variables; each one drives one component  *)
(* and keeps the others at a fixed idle state:                             *)
(*   SpecScan   scan()                                                     *)
(*   SpecBase   base() called from several threads                         *)
(*   SpecImage  sections() and resolve_rva()                               *)
(*   SpecHook   hook()                                                     *)
(***************************************************************************)
EXTENDS Integers, Sequences, FiniteSets, TLC

VARIABLES
    \* ---- scan ----
    slice,        \* the buffer, a sequence of bytes
    pattern,      \* the pattern, a sequence of bytes (255 = wildcard)
    scanPc,       \* "idle" | "running" | "done" | "panicked"
    cut,          \* cut[w-1] .. cut[w]-1 are the window indices of worker w
    pos,          \* pos[w]: next window index worker w tests
    found,        \* found[w]: the index worker w matched, or NoIndex
    wdone,        \* wdone[w]: worker w has finished its range
    best,         \* rayon's best_found: lowest range bound with a match so far
    order,        \* the workers in the order they finished
    result,       \* the Option scan returned: NoPtr or an address
    \* ---- base ----
    imageBase,    \* what the platform query answers (the real load address)
    once,         \* LazyLock state: "Incomplete" | "Running" | "Complete"
    cell,         \* the value stored in BASE, Uninit before initialisation
    computeCount, \* how many times the initialiser closure ran
    tpc,          \* tpc[t]: where thread t is inside base()
    ret,          \* ret[t]: the sequence of values base() returned to thread t
    \* ---- sections / resolve ----
    image,        \* the header fields found at the base address
    imgPc,        \* "idle" | "done" | "fault"
    sectionsOut,  \* the Vec<Section> sections() returned
    resolveArg,   \* the offset last passed to resolve_rva
    resolveOut,   \* the address of the function value resolve_rva returned
    \* ---- hook ----
    mem,          \* the bytes stored so far: address -> byte, over OrigByte
    prot,         \* page -> protection flags
    prot0,        \* the protection before install (history)
    hookPc,       \* the installer's position
    target,       \* hook's target argument
    func,         \* the address `&function as *const usize`
    oldProtection,\* the local old_protection
    trampoline,   \* the local trampoline, 0 when VirtualAlloc failed
    nopI,         \* the loop variable of the NOP fill
    wrote,        \* addresses of the image's code the installer has written (history)
    failed        \* the platform steps that failed so far (history)

scanVars  == <<slice, pattern, scanPc, cut, pos, found, wdone, best, order, result>>
baseVars  == <<imageBase, once, cell, computeCount, tpc, ret>>
imageVars == <<image, imgPc, sectionsOut, resolveArg, resolveOut>>
hookVars  == <<mem, prot, prot0, hookPc, target, func, oldProtection,
               trampoline, nopI, wrote, failed>>
vars      == <<scanVars, baseVars, imageVars, hookVars>>

\* ------------------------------------------------------------------ bounds
MaxBuf     == 4
MaxPat     == 2
MaxWorkers == 2
MaxThreads == 3
MaxCalls   == 2
MaxSections == 2

\* ------------------------------------------------------- program constants
WILDCARD == 255
USIZE    == 8

Min(a, b) == IF a < b THEN a ELSE b
Max(a, b) == IF a > b THEN a ELSE b

\* `p.add(n)` on a `*const T`: the address advances by n * size_of::<T>().
PtrAdd(p, n, elemSize) == p + n * elemSize

RECURSIVE LE(_, _)
\* The little-endian bytes of an n-byte integer.
LE(v, n) == IF n = 0 THEN <<>> ELSE <<v % 256>> \o LE(v \div 256, n - 1)

(***************************************************************************)
(*                               scan                                      *)
(***************************************************************************)
Bytes   == {170, 187, 255}
NoIndex == 0 - 1
NoPtr   == 0 - 1
SliceAddrs == {4099}
SliceAddr == CHOOSE a \in SliceAddrs : TRUE

SeqsUpTo(S, n) == UNION {[1..k -> S] : k \in 0..n}

\* The closure given to position_first: every pattern byte is the wildcard
\* or equals the window's byte. `window` is slice[i+1 .. i+Len(pattern)].
WindowMatches(s, p, i) ==
    \A k \in 1..Len(p) : p[k] = WILDCARD \/ s[i + k] = p[k]

\* rayon's Windows::len(): slice.len().saturating_sub(window_size - 1).
NumWindows(s, p) == Max(0, Len(s) - (Len(p) - 1))

Workers == 1..MaxWorkers

ScanIdle ==
    /\ scanPc = "idle"
    /\ cut = <<>> /\ pos = <<>> /\ found = <<>> /\ wdone = <<>>
    /\ best = NoIndex /\ order = <<>> /\ result = NoPtr

ScanInit ==
    /\ slice \in SeqsUpTo(Bytes, MaxBuf)
    /\ pattern \in SeqsUpTo(Bytes, MaxPat)
    /\ ScanIdle

ScanFixed ==
    /\ slice = <<>> /\ pattern = <<>>
    /\ ScanIdle

\* The partitions of the window indices 0..n-1 among k workers, as the
\* nondecreasing bounds c[0] = 0 <= c[1] <= ... <= c[k] = n.
Partitions(n, k) ==
    {c \in [0..k -> 0..n] :
        /\ c[0] = 0 /\ c[k] = n
        /\ \A w \in 1..k : c[w - 1] <= c[w]}

\* par_windows(0): Windows::len() asserts window_size >= 1.
ScanPanic ==
    /\ scanPc = "idle"
    /\ Len(pattern) = 0
    /\ scanPc' = "panicked"
    /\ UNCHANGED <<slice, pattern, cut, pos, found, wdone, best, order, result>>

\* The bridge splits the windows among the workers.
ScanSplit ==
    /\ scanPc = "idle"
    /\ Len(pattern) >= 1
    /\ \E k \in Workers : \E c \in Partitions(NumWindows(slice, pattern), k) :
          /\ cut' = c
          /\ pos' = [w \in 1..k |-> c[w - 1]]
          /\ found' = [w \in 1..k |-> NoIndex]
          /\ wdone' = [w \in 1..k |-> FALSE]
    /\ best' = NoIndex
    /\ order' = <<>>
    /\ scanPc' = "running"
    /\ UNCHANGED <<slice, pattern, result>>

\* FindConsumer::full() for find_first: a range with a lower bound has matched.
Full(w) == best # NoIndex /\ best < cut[w - 1]

Finish(w) ==
    /\ wdone' = [wdone EXCEPT ![w] = TRUE]
    /\ order' = Append(order, w)

\* One step of worker w's fold over its range.
WorkerStep(w) ==
    /\ scanPc = "running"
    /\ w \in DOMAIN wdone
    /\ ~wdone[w]
    /\ IF Full(w) \/ pos[w] >= cut[w]
       THEN /\ Finish(w)
            /\ UNCHANGED <<pos, found, best>>
       ELSE IF WindowMatches(slice, pattern, pos[w])
       THEN /\ found' = [found EXCEPT ![w] = pos[w]]
            /\ best' = IF best = NoIndex THEN cut[w - 1] ELSE Min(best, cut[w - 1])
            /\ Finish(w)
            /\ UNCHANGED pos
       ELSE /\ pos' = [pos EXCEPT ![w] = pos[w] + 1]
            /\ UNCHANGED <<found, best, wdone, order>>
    /\ UNCHANGED <<slice, pattern, scanPc, cut, result>>

RECURSIVE FirstSome(_, _)
\* The reducer of find_first, left.or(right) over the ranges left to right.
FirstSome(f, w) ==
    IF w > Len(f) THEN NoIndex
    ELSE IF f[w] # NoIndex THEN f[w]
    ELSE FirstSome(f, w + 1)

RECURSIVE AnyByOrder(_, _, _)
AnyByOrder(f, o, k) ==
    IF k > Len(o) THEN NoIndex
    ELSE IF f[o[k]] # NoIndex THEN f[o[k]]
    ELSE AnyByOrder(f, o, k + 1)

\* A reducer that keeps the match of whichever worker finished first.
ReduceAny(f, o) == AnyByOrder(f, o, 1)

Reduce(f, o) == FirstSome(f, 1)

\* .map(|offset| slice.as_ptr().add(offset)): a byte pointer into the slice.
ToPtr(idx) == IF idx = NoIndex THEN NoPtr ELSE PtrAdd(SliceAddr, idx, 1)

\* All workers have joined: reduce, and map the index to a pointer.
ScanJoin ==
    /\ scanPc = "running"
    /\ \A w \in DOMAIN wdone : wdone[w]
    /\ result' = ToPtr(Reduce(found, order))
    /\ scanPc' = "done"
    /\ UNCHANGED <<slice, pattern, cut, pos, found, wdone, best, order>>

(***************************************************************************)
(*                               base                                      *)
(***************************************************************************)
Uninit    == 0 - 1
BaseAddrs == {65536, 4194304}
Threads   == 1..MaxThreads

BaseIdle ==
    /\ once = "Incomplete"
    /\ cell = Uninit
    /\ computeCount = 0
    /\ tpc = [t \in Threads |-> "idle"]
    /\ ret = [t \in Threads |-> <<>>]

BaseInit ==
    /\ imageBase \in BaseAddrs
    /\ BaseIdle

BaseFixed ==
    /\ imageBase = 4194304
    /\ BaseIdle

\* An initialisation guard that tests the state without claiming it: every
\* caller that does not see "Complete" runs the initialiser itself.
CallOnceRacy(t) ==
    /\ tpc[t] = "idle"
    /\ Len(ret[t]) < MaxCalls
    /\ tpc' = [tpc EXCEPT ![t] = IF once = "Complete" THEN "read" ELSE "init"]
    /\ UNCHANGED <<imageBase, once, cell, computeCount, ret>>

\* Thread t enters base(): LazyLock::force -> Once::call_once.  The thread
\* that moves Incomplete to Running runs the initialiser; a thread that sees
\* Running blocks; a thread that sees Complete reads the value.
CallOnce(t) ==
    /\ tpc[t] = "idle"
    /\ Len(ret[t]) < MaxCalls
    /\ tpc' = [tpc EXCEPT ![t] = CASE once = "Incomplete" -> "init"
                                   [] once = "Running"    -> "wait"
                                   [] OTHER               -> "read"]
    /\ once' = IF once = "Incomplete" THEN "Running" ELSE once
    /\ UNCHANGED <<imageBase, cell, computeCount, ret>>

\* The closure: query the platform (GetModuleHandleW(null) / dladdr) and
\* store Base(address) in the cell.
RunInit(t) ==
    /\ tpc[t] = "init"
    /\ cell' = imageBase
    /\ computeCount' = computeCount + 1
    /\ tpc' = [tpc EXCEPT ![t] = "publish"]
    /\ UNCHANGED <<imageBase, once, ret>>

\* The Once completes and wakes the waiters.
Publish(t) ==
    /\ tpc[t] = "publish"
    /\ once' = "Complete"
    /\ tpc' = [tpc EXCEPT ![t] = "read"]
    /\ UNCHANGED <<imageBase, cell, computeCount, ret>>

Wake(t) ==
    /\ tpc[t] = "wait"
    /\ once = "Complete"
    /\ tpc' = [tpc EXCEPT ![t] = "read"]
    /\ UNCHANGED <<imageBase, once, cell, computeCount, ret>>

\* `BASE.0`: the call returns what the cell holds.
ReadBase(t) ==
    /\ tpc[t] = "read"
    /\ ret' = [ret EXCEPT ![t] = Append(ret[t], cell)]
    /\ tpc' = [tpc EXCEPT ![t] = "idle"]
    /\ UNCHANGED <<imageBase, once, cell, computeCount>>

\* base() called by the only running thread, start to return.
BaseNow == IF once = "Complete" THEN cell ELSE imageBase

BaseForce ==
    /\ cell' = BaseNow
    /\ computeCount' = IF once = "Complete" THEN computeCount ELSE computeCount + 1
    /\ once' = "Complete"
    /\ UNCHANGED <<imageBase, tpc, ret>>

(***************************************************************************)
(*                        sections / resolve_rva                           *)
(***************************************************************************)
\* The 8-byte Name fields: ".text" padded with NULs, and ".textbss", which
\* fills the field and leaves no NUL in it.
Names    == {<<46, 116, 101, 120, 116, 0, 0, 0>>,
             <<46, 116, 101, 120, 116, 98, 115, 115>>}
RVAs     == {0, 4096}
Sizes    == {16, 512}
Magics   == {23117, 0}        \* 0x5A4D "MZ", or something else
Sigs     == {17744, 0}        \* 0x00004550 "PE\0\0", or something else
Offsets  == {0, 1, 4096, 2638752}
NoArg    == 0 - 1

Descriptors == [Name : Names, VirtualAddress : RVAs, VirtualSize : Sizes]

\* What lies at the base address.  `mapped` says whether the memory that
\* e_lfanew leads to can be read; in a well-formed image it can.
Images ==
    {img \in [e_magic : Magics, Signature : Sigs, mapped : BOOLEAN,
              NumberOfSections : 0..MaxSections,
              descs : SeqsUpTo(Descriptors, MaxSections)] :
        /\ Len(img.descs) = img.NumberOfSections
        /\ (img.e_magic = 23117 /\ img.Signature = 17744) => img.mapped}

ImageIdle ==
    /\ imgPc = "idle"
    /\ sectionsOut = <<>>
    /\ resolveArg = NoArg
    /\ resolveOut = NoArg

ImageInit ==
    /\ image \in Images
    /\ ImageIdle

ImageFixed ==
    /\ image = [e_magic |-> 23117, Signature |-> 17744, mapped |-> TRUE,
                NumberOfSections |-> 0, descs |-> <<>>]
    /\ ImageIdle

RECURSIVE UpToNul(_)
UpToNul(bs) ==
    IF bs = <<>> \/ Head(bs) = 0 THEN <<>> ELSE <<Head(bs)>> \o UpToNul(Tail(bs))

\* CStr::from_ptr(Name.as_ptr()).to_string_lossy(): the bytes from the start
\* of Name up to the first NUL, wherever it is; Misc.VirtualSize and
\* VirtualAddress follow Name in the descriptor.
DecodeName(d) ==
    UpToNul(d.Name \o LE(d.VirtualSize, 4) \o LE(d.VirtualAddress, 4))

\* The closure of the second .map(): one descriptor to one Section.
ToSection(b, d) ==
    [name |-> DecodeName(d),
     base |-> PtrAdd(b, d.VirtualAddress, USIZE),
     len  |-> d.VirtualSize]

\* sections(): no marker is tested; NumberOfSections descriptors are read.
Sections ==
    /\ imgPc = "idle"
    /\ BaseForce
    /\ IF image.mapped
       THEN /\ sectionsOut' = [j \in 1..image.NumberOfSections |->
                                  ToSection(BaseNow, image.descs[j])]
            /\ imgPc' = "done"
       ELSE /\ sectionsOut' = sectionsOut
            /\ imgPc' = "fault"
    /\ UNCHANGED <<image, resolveArg, resolveOut>>

\* base().add(offset) on a *const usize, reinterpreted as the function value.
ResolveAddr(b, offset) == PtrAdd(b, offset, USIZE)

ResolveRva(offset) ==
    /\ resolveArg = NoArg
    /\ BaseForce
    /\ resolveArg' = offset
    /\ resolveOut' = ResolveAddr(BaseNow, offset)
    /\ UNCHANGED <<image, imgPc, sectionsOut>>

(***************************************************************************)
(*                               hook                                      *)
(***************************************************************************)
ORIGINAL_SIZE          == 14
PAGE_EXECUTE_READWRITE == 64
NOP                    == 144

\* A page that is not committed counts as PAGE_NOACCESS.
PAGE_NOACCESS == 1
Writable(p) == p \in {4, PAGE_EXECUTE_READWRITE}

\* x64 Windows pages are 4 KiB; protection is kept per page.
PageOf(a) == a \div 4096
PagesOf(a, n) == {PageOf(x) : x \in a..(a + n - 1)}

\* The targets: at the start of a code page; 16 bytes before the end of a
\* page (the 14-byte region stays inside it); 8 bytes before the end (the
\* region itself runs into the next page).
Targets   == {4096, 8176, 8184}
FuncAddrs == {1048560, 305419896}
TrampAddr == 16 * 4096
TrampPage == PageOf(TrampAddr)
Pages     == {0, 1, 2, TrampPage}
CodeAddrs == 4096..12287

JUMP_BACK == <<255, 37, 0, 0, 0, 0, 0, 0, 0, 0>>
JUMP_INSTRUCTIONS == <<72, 184, 0, 0, 0, 0, 0, 0, 0, 0, 255, 224>>

\* The memory before install: the image's code, and zeroes in the page
\* VirtualAlloc hands out.
OrigByte(a) == IF a \in CodeAddrs THEN 3 + (a % 61) ELSE 0

\* The byte at address a: the last store to it, or what was there before.
Peek(m, a) == IF a \in DOMAIN m THEN m[a] ELSE OrigByte(a)

RECURSIVE WordBytes(_)
\* The bytes of an array of usize.
WordBytes(ws) ==
    IF ws = <<>> THEN <<>> ELSE LE(Head(ws), USIZE) \o WordBytes(Tail(ws))

ReadBytes(m, a, n) == [k \in 1..n |-> Peek(m, a + k - 1)]

WriteBytes(m, a, bs) ==
    [x \in (DOMAIN m) \cup (a..(a + Len(bs) - 1)) |->
        IF x \in a..(a + Len(bs) - 1) THEN bs[x - a + 1] ELSE m[x]]

CanWrite(a, n) == \A pg \in PagesOf(a, n) : pg \in Pages /\ Writable(prot[pg])

HookIdle ==
    /\ mem = <<>>
    /\ prot0 = prot
    /\ hookPc = "start"
    /\ oldProtection = 0
    /\ trampoline = 0
    /\ nopI = 0
    /\ wrote = {}
    /\ failed = {}

HookInit ==
    /\ target \in Targets
    /\ func \in FuncAddrs
    /\ \E p1 \in {32, 2}, p2 \in {32, 64} :
          prot = [pg \in Pages |-> CASE pg = 1 -> p1 [] pg = 2 -> p2 [] OTHER -> PAGE_NOACCESS]
    /\ HookIdle

HookFixed ==
    /\ target = 4096
    /\ func = 1048560
    /\ prot = [pg \in Pages |-> IF pg \in {1, 2} THEN 32 ELSE PAGE_NOACCESS]
    /\ HookIdle

SetProt(pr, a, n, flags) ==
    [pg \in DOMAIN pr |-> IF pg \in PagesOf(a, n) THEN flags ELSE pr[pg]]

hookLocals == <<target, func, prot0>>

\* VirtualProtect(target, original_size, PAGE_EXECUTE_READWRITE, &mut old)
\* .unwrap(): a failure panics.
Protect ==
    /\ hookPc = "start"
    /\ \/ /\ oldProtection' = prot[PageOf(target)]
          /\ prot' = SetProt(prot, target, ORIGINAL_SIZE, PAGE_EXECUTE_READWRITE)
          /\ hookPc' = "alloc"
          /\ UNCHANGED failed
       \/ /\ failed' = failed \cup {"protect"}
          /\ hookPc' = "panicked"
          /\ UNCHANGED <<oldProtection, prot>>
    /\ UNCHANGED <<hookLocals, mem, trampoline, nopI, wrote>>

\* VirtualAlloc(None, 5, ..): a fresh zeroed executable page, or null on
\* failure.  The result is not tested.
Alloc ==
    /\ hookPc = "alloc"
    /\ \/ /\ trampoline' = TrampAddr
          /\ prot' = [prot EXCEPT ![TrampPage] = PAGE_EXECUTE_READWRITE]
          /\ UNCHANGED failed
       \/ /\ trampoline' = 0
          /\ failed' = failed \cup {"alloc"}
          /\ UNCHANGED prot
    /\ hookPc' = "copy_orig"
    /\ UNCHANGED <<hookLocals, mem, oldProtection, nopI, wrote>>

\* A store of bytes bs at address a, then on to pc `next`; an access
\* violation ends the process when a page is not writable.
Store(a, bs, next) ==
    IF CanWrite(a, Len(bs))
    THEN /\ mem' = WriteBytes(mem, a, bs)
         /\ wrote' = wrote \cup ((a..(a + Len(bs) - 1)) \cap CodeAddrs)
         /\ hookPc' = next
    ELSE /\ hookPc' = "fault"
         /\ UNCHANGED <<mem, wrote>>

\* copy_nonoverlapping(target, trampoline, original_bytes.len()): 14 usize.
CopyOrig ==
    /\ hookPc = "copy_orig"
    /\ Store(trampoline, ReadBytes(mem, target, USIZE * ORIGINAL_SIZE), "jump_back")
    /\ UNCHANGED <<hookLocals, prot, oldProtection, trampoline, nopI, failed>>

\* trampoline_jump = trampoline.add(14); the 10 usize of jump_back go there.
TrampolineJump == PtrAdd(trampoline, ORIGINAL_SIZE, USIZE)
ReturnAddress  == PtrAdd(target, ORIGINAL_SIZE, USIZE)

WriteJumpBack ==
    /\ hookPc = "jump_back"
    /\ Store(TrampolineJump, WordBytes(JUMP_BACK), "ret_addr")
    /\ UNCHANGED <<hookLocals, prot, oldProtection, trampoline, nopI, failed>>

\* *(trampoline_jump.add(6)) = return_address
WriteReturnAddr ==
    /\ hookPc = "ret_addr"
    /\ Store(PtrAdd(TrampolineJump, 6, USIZE), LE(ReturnAddress, USIZE), "jump")
    /\ UNCHANGED <<hookLocals, prot, oldProtection, trampoline, nopI, failed>>

\* copy_nonoverlapping(jump_instructions.as_ptr(), target as *mut usize, 12)
WriteJump ==
    /\ hookPc = "jump"
    /\ Store(target, WordBytes(JUMP_INSTRUCTIONS), "func_addr")
    /\ UNCHANGED <<hookLocals, prot, oldProtection, trampoline, nopI, failed>>

\* *(target.add(2)) = func as usize
WriteFuncAddr ==
    /\ hookPc = "func_addr"
    /\ Store(PtrAdd(target, 2, USIZE), LE(func, USIZE), "nops")
    /\ nopI' = Len(JUMP_INSTRUCTIONS)
    /\ UNCHANGED <<hookLocals, prot, oldProtection, trampoline, failed>>

\* for i in jump_instructions.len()..original_size { *target.add(i) = 0x90 }
NopFill ==
    /\ hookPc = "nops"
    /\ Store(PtrAdd(target, nopI, USIZE), LE(NOP, USIZE),
             IF nopI + 1 < ORIGINAL_SIZE THEN "nops" ELSE "restore")
    /\ nopI' = nopI + 1
    /\ UNCHANGED <<hookLocals, prot, oldProtection, trampoline, failed>>

\* VirtualProtect(target, original_size, old_protection, &mut old_protection);
\* the Result is dropped.
Restore ==
    /\ hookPc = "restore"
    /\ \/ /\ prot' = SetProt(prot, target, ORIGINAL_SIZE, oldProtection)
          /\ oldProtection' = prot[PageOf(target)]
          /\ UNCHANGED failed
       \/ /\ failed' = failed \cup {"restore"}
          /\ UNCHANGED <<prot, oldProtection>>
    /\ hookPc' = "returned"
    /\ UNCHANGED <<hookLocals, mem, trampoline, nopI, wrote>>

(***************************************************************************)
(*                          specifications                                 *)
(***************************************************************************)
notScan  == <<baseVars, imageVars, hookVars>>
notBase  == <<scanVars, imageVars, hookVars>>
notImage == <<scanVars, hookVars>>
notHook  == <<scanVars, baseVars, imageVars>>

InitScan == ScanInit /\ BaseFixed /\ ImageFixed /\ HookFixed
NextScan ==
    \/ ScanPanic /\ UNCHANGED notScan
    \/ ScanSplit /\ UNCHANGED notScan
    \/ (\E w \in Workers : WorkerStep(w)) /\ UNCHANGED notScan
    \/ ScanJoin /\ UNCHANGED notScan
SpecScan == InitScan /\ [][NextScan]_vars

InitBase == BaseInit /\ ScanFixed /\ ImageFixed /\ HookFixed
NextBase ==
    \/ (\E t \in Threads : CallOnce(t)) /\ UNCHANGED notBase
    \/ (\E t \in Threads : RunInit(t)) /\ UNCHANGED notBase
    \/ (\E t \in Threads : Publish(t)) /\ UNCHANGED notBase
    \/ (\E t \in Threads : Wake(t)) /\ UNCHANGED notBase
    \/ (\E t \in Threads : ReadBase(t)) /\ UNCHANGED notBase
SpecBase == InitBase /\ [][NextBase]_vars

InitImage == ImageInit /\ BaseInit /\ ScanFixed /\ HookFixed
NextImage ==
    \/ Sections /\ UNCHANGED notImage
    \/ (\E offset \in Offsets : ResolveRva(offset)) /\ UNCHANGED notImage
SpecImage == InitImage /\ [][NextImage]_vars

InitHook == HookInit /\ ScanFixed /\ BaseFixed /\ ImageFixed
NextHook ==
    \/ Protect /\ UNCHANGED notHook
    \/ Alloc /\ UNCHANGED notHook
    \/ CopyOrig /\ UNCHANGED notHook
    \/ WriteJumpBack /\ UNCHANGED notHook
    \/ WriteReturnAddr /\ UNCHANGED notHook
    \/ WriteJump /\ UNCHANGED notHook
    \/ WriteFuncAddr /\ UNCHANGED notHook
    \/ NopFill /\ UNCHANGED notHook
    \/ Restore /\ UNCHANGED notHook
SpecHook == InitHook /\ [][NextHook]_vars

(***************************************************************************)
(*                              properties                                 *)
(***************************************************************************)

\* The offsets at which pattern p matches buffer s, as the contract states
\* them: i in [0, len(s) - len(p)], every p[k] the wildcard 0xFF or s[i+k].
MatchOffsets(s, p) ==
    {i \in 0..(Len(s) - Len(p)) :
        \A k \in 1..Len(p) : p[k] = 255 \/ p[k] = s[i + k]}

SmallestOf(S) == CHOOSE x \in S : \A y \in S : x <= y

\* C1: for every buffer and every pattern, the empty one and one longer than
\* the buffer included, scan returns the position of the smallest matching
\* offset, returns nothing when there is none, and never fails instead of
\* returning.
C1_ScanReturnsSmallestMatch ==
    scanPc \in {"done", "panicked"} =>
        /\ scanPc = "done"
        /\ result = IF MatchOffsets(slice, pattern) = {}
                    THEN NoPtr
                    ELSE SliceAddr + SmallestOf(MatchOffsets(slice, pattern))

RECURSIVE LinearFrom(_, _, _)
\* A single-threaded scan of the windows from index i, left to right.
LinearFrom(s, p, i) ==
    IF i + Len(p) > Len(s) THEN NoIndex
    ELSE IF WindowMatches(s, p, i) THEN i
    ELSE LinearFrom(s, p, i + 1)

\* C2: whatever the number of workers, the partition and the order in which
\* the workers run and finish, scan returns what a single-threaded
\* left-to-right scan returns: the lowest matching offset.
C2_ParallelEqualsLinear ==
    scanPc = "done" =>
        result = IF LinearFrom(slice, pattern, 0) = NoIndex
                 THEN NoPtr
                 ELSE SliceAddr + LinearFrom(slice, pattern, 0)

\* Two workers both matched and the right-hand one finished first.
C2_Witness ==
    /\ scanPc = "done"
    /\ Len(order) >= 2
    /\ order[1] = 2 /\ order[2] = 1
    /\ found[1] # NoIndex /\ found[2] # NoIndex

\* C3: the platform query runs at most once, exactly once as soon as a call
\* has returned, and every call of every thread returns the one cached
\* address, never the uninitialised cell.
C3_BaseComputedOnce ==
    /\ computeCount <= 1
    /\ \A t \in Threads : \A k \in 1..Len(ret[t]) :
          /\ computeCount = 1
          /\ ret[t][k] # Uninit
          /\ ret[t][k] = cell
          /\ \A u \in Threads : \A j \in 1..Len(ret[u]) : ret[u][j] = ret[t][k]

\* A thread that raced on the first call is still blocked while another
\* thread has already returned from two calls.
C3_Witness ==
    \E t, u \in Threads :
        /\ t # u
        /\ tpc[t] = "wait"
        /\ Len(ret[u]) = 2

ValidHeader(img) == img.e_magic = 23117 /\ img.Signature = 17744

\* C4: on an image with a wrong legacy magic or a wrong extended signature,
\* sections() returns the empty sequence and does not fault.
C4_MalformedGivesEmpty ==
    (imgPc # "idle" /\ ~ValidHeader(image)) =>
        (imgPc = "done" /\ sectionsOut = <<>>)

\* C5: on a valid header sections() returns one section per descriptor, in
\* descriptor order, the j-th at byte address base + descriptor j's relative
\* virtual address and of length descriptor j's virtual size.
C5_SectionsFollowDescriptors ==
    (imgPc = "done" /\ ValidHeader(image)) =>
        /\ Len(sectionsOut) = image.NumberOfSections
        /\ \A j \in 1..image.NumberOfSections :
              /\ sectionsOut[j].base = cell + image.descs[j].VirtualAddress
              /\ sectionsOut[j].len = image.descs[j].VirtualSize

\* C6: the resolver returns the function whose entry address is the base
\* address plus the offset, counted in bytes.
C6_ResolveAddsByteOffset ==
    resolveArg # NoArg => resolveOut = cell + resolveArg

\* C7: after hook returns, the 14 bytes at target are 48 B8, the 8-byte
\* address of the replacement, FF E0, 90 90.
C7_TargetHoldsJump ==
    hookPc = "returned" =>
        ReadBytes(mem, target, 14) =
            <<72, 184>> \o LE(func, 8) \o <<255, 224, 144, 144>>

\* C8: from the first write to the target onward the trampoline holds the 14
\* bytes that were at target before install, immediately followed by
\* jmp [rip+0] and the 8-byte address target + 14.
C8_TrampolineCallsThrough ==
    hookPc \in {"func_addr", "nops", "restore", "returned"} =>
        /\ ReadBytes(mem, trampoline, 14) = [k \in 1..14 |-> OrigByte(target + k - 1)]
        /\ ReadBytes(mem, trampoline + 14, 14) =
              <<255, 37, 0, 0, 0, 0>> \o LE(target + 14, 8)

\* C9: a failed platform step (protect, allocate, restore) ends the install
\* there: it neither goes on to a later step nor returns normally.
C9_FailureIsFatal ==
    failed # {} => hookPc = "panicked"

\* C10: the installer writes the image's code only inside the 14-byte region
\* at target, only between the protect step and the restore step, and on
\* return the region's pages have the protection they had before.
C10_WritesBracketed ==
    /\ wrote \subseteq target..(target + 13)
    /\ hookPc \in {"start", "alloc", "panicked"} => wrote = {}
    /\ wrote # {} => \A pg \in PagesOf(target, 14) : prot[pg] = 64 \/ hookPc = "returned"
    /\ hookPc = "returned" => \A pg \in PagesOf(target, 14) : prot[pg] = prot0[pg]

====
